---------------------------- MODULE Spec2Model ----------------------------
(***************************************************************************)
(* A model of the ACP multi-resolution document (src/src/acp/document.py)  *)
(* and of its level generators (src/src/acp/generators.py).                *)
(*                                                                         *)
(* Python values are tagged records.  Scalars are immutable; a list or a   *)
(* dict is a container that the program reaches either inline or through  *)
(* a reference into `heap`, the store of the objects the caller created.   *)
(* A Python str is a TLA+ string, a dict is the sequence of its items in   *)
(* insertion order.                                                        *)
(***************************************************************************)
EXTENDS Integers, Sequences, FiniteSets, TLC

VARIABLES
    heap,              \* the caller's container objects, by object identity
    built,             \* whether from_dict has returned a document
    auto_generate,     \* the auto_generate argument that from_dict was given
    entity,            \* ACPDocument.entity
    id,                \* ACPDocument.id
    data,              \* ACPDocument.data: a reference to the caller's record
    l0,                \* ACPDocument.l0
    l1,                \* ACPDocument.l1
    l2,                \* ACPDocument.l2 (a dict owned by the document)
    l3,                \* ACPDocument.l3 (a dict owned by the document)
    token_counts,      \* ACPDocument.token_counts
    generated_at,      \* ACPDocument.generated_at
    key_fields,        \* ACPDocument.key_fields
    summary_template,  \* ACPDocument.summary_template
    hash_order,        \* iteration order of the HIGH_PRIORITY_FIELDS set
    result,            \* the call whose outcome the caller has in hand
    snapshot,          \* what the document held when from_dict returned
    mutations,         \* number of changes the caller made to its record
    threads,           \* the writer and the reader thread of a shared document
    llm                \* a call of LLMAssistedGenerator.generate_l1

docvars == <<built, auto_generate, entity, id, data, l0, l1, l2, l3, token_counts,
             generated_at, key_fields, summary_template>>

\* what the calls on one document leave alone
othervars == <<hash_order, mutations, threads, llm>>

vars == <<heap, docvars, result, snapshot, othervars>>

---------------------------------------------------------------------------
(* Python values *)

\* Each kind of value keeps its payload under a field of its own.
PyStr(s) == [t |-> "str", s |-> s]
PyInt(n) == [t |-> "int", n |-> n]
PyBool(b) == [t |-> "bool", b |-> b]
PyFloat(tenths) == [t |-> "float", f |-> tenths]
PyNone == [t |-> "none"]
Ref(p) == [t |-> "ref", p |-> p]
PyList(xs) == [t |-> "list", xs |-> xs]
PyDict(items) == [t |-> "dict", items |-> items]
Item(k, v) == [k |-> k, v |-> v]

\* the elements of a list, the items of a dict
Elems(o) == IF o.t = "dict" THEN o.items ELSE o.xs

\* The object a value denotes: a reference is followed into the heap.
Deref(h, x) == IF x.t = "ref" THEN h[x.p] ELSE x

IsDict(h, x) == Deref(h, x).t = "dict"
IsList(h, x) == Deref(h, x).t = "list"

\* bool(x)
Truthy(h, x) ==
    LET o == Deref(h, x) IN
    CASE o.t = "str" -> o.s # ""
      [] o.t = "int" -> o.n # 0
      [] o.t = "float" -> o.f # 0
      [] o.t = "bool" -> o.b
      [] o.t = "none" -> FALSE
      [] OTHER -> Len(Elems(o)) > 0

\* Body(e), with e evaluated once
With(e, Body(_)) == CHOOSE r \in {Body(x) : x \in {e}} : TRUE

---------------------------------------------------------------------------
(* Python strings *)

Digit(d) == SubSeq("0123456789", d + 1, d + 1)

RECURSIVE NatToStr(_)
NatToStr(n) == IF n < 10 THEN Digit(n) ELSE NatToStr(n \div 10) \o Digit(n % 10)

\* str(n) for an int
IntToStr(n) == IF n < 0 THEN "-" \o NatToStr(-n) ELSE NatToStr(n)

\* repr(f) for a float with one decimal digit
FloatToStr(tenths) ==
    IF tenths < 0
    THEN "-" \o NatToStr((-tenths) \div 10) \o "." \o Digit((-tenths) % 10)
    ELSE NatToStr(tenths \div 10) \o "." \o Digit(tenths % 10)

CharAt(s, i) == SubSeq(s, i, i)

Contains(s, c) == \E i \in 1..Len(s) : CharAt(s, i) = c

\* sep.join(parts)
RECURSIVE Join(_, _)
Join(parts, sep) ==
    With(parts, LAMBDA ps :
        IF Len(ps) = 0 THEN ""
        ELSE IF Len(ps) = 1 THEN ps[1]
        ELSE ps[1] \o sep \o Join(Tail(ps), sep))

\* s.replace(old, new) for a non-empty old: leftmost, non-overlapping
RECURSIVE StrReplace(_, _, _)
StrReplace(s, old, new) ==
    IF Len(s) < Len(old) THEN s
    ELSE IF SubSeq(s, 1, Len(old)) = old
         THEN new \o StrReplace(SubSeq(s, Len(old) + 1, Len(s)), old, new)
         ELSE CharAt(s, 1) \o StrReplace(Tail(s), old, new)

IsSpace(c) == c \in {" ", "\n", "\t", "\r"}

RECURSIVE LStrip(_)
LStrip(s) == IF Len(s) > 0 /\ IsSpace(CharAt(s, 1)) THEN LStrip(Tail(s)) ELSE s

RECURSIVE RStrip(_)
RStrip(s) ==
    IF Len(s) > 0 /\ IsSpace(CharAt(s, Len(s)))
    THEN RStrip(SubSeq(s, 1, Len(s) - 1)) ELSE s

\* s.strip()
Strip(s) == RStrip(LStrip(s))

\* the body of a JSON string literal: '"' and '\' are escaped
RECURSIVE JsonEscape(_)
JsonEscape(s) ==
    IF s = "" THEN ""
    ELSE LET c == CharAt(s, 1) IN
         (CASE c = "\"" -> "\\\""
            [] c = "\\" -> "\\\\"
            [] c = "\n" -> "\\n"
            [] OTHER -> c) \o JsonEscape(Tail(s))

\* the body of repr(s) between quotes q
RECURSIVE ReprEscape(_, _)
ReprEscape(s, q) ==
    IF s = "" THEN ""
    ELSE LET c == CharAt(s, 1) IN
         (CASE c = q -> "\\" \o q
            [] c = "\\" -> "\\\\"
            [] c = "\n" -> "\\n"
            [] OTHER -> c) \o ReprEscape(Tail(s), q)

\* repr(s) for a str: single quotes, unless only single quotes occur in s
ReprStr(s) ==
    IF Contains(s, "'") /\ ~Contains(s, "\"")
    THEN "\"" \o ReprEscape(s, "\"") \o "\""
    ELSE "'" \o ReprEscape(s, "'") \o "'"

---------------------------------------------------------------------------
(* Python renderings of a value: repr, str and json.dumps *)

RECURSIVE PyRepr(_, _)
PyRepr(h, x) ==
    LET o == Deref(h, x) IN
    CASE o.t = "str" -> ReprStr(o.s)
      [] o.t = "int" -> IntToStr(o.n)
      [] o.t = "float" -> FloatToStr(o.f)
      [] o.t = "bool" -> IF o.b THEN "True" ELSE "False"
      [] o.t = "none" -> "None"
      [] o.t = "list" ->
            "[" \o Join([i \in 1..Len(o.xs) |-> PyRepr(h, o.xs[i])], ", ") \o "]"
      [] o.t = "dict" ->
            "{" \o Join([i \in 1..Len(o.items) |->
                           ReprStr(o.items[i].k) \o ": " \o PyRepr(h, o.items[i].v)],
                        ", ") \o "}"

\* str(x)
ToStr(h, x) == LET o == Deref(h, x) IN IF o.t = "str" THEN o.s ELSE PyRepr(h, x)

\* json.dumps(x) with the default separators
RECURSIVE JsonDumps(_, _)
JsonDumps(h, x) ==
    LET o == Deref(h, x) IN
    CASE o.t = "str" -> "\"" \o JsonEscape(o.s) \o "\""
      [] o.t = "int" -> IntToStr(o.n)
      [] o.t = "float" -> FloatToStr(o.f)
      [] o.t = "bool" -> IF o.b THEN "true" ELSE "false"
      [] o.t = "none" -> "null"
      [] o.t = "list" ->
            "[" \o Join([i \in 1..Len(o.xs) |-> JsonDumps(h, o.xs[i])], ", ") \o "]"
      [] o.t = "dict" ->
            "{" \o Join([i \in 1..Len(o.items) |->
                           "\"" \o JsonEscape(o.items[i].k) \o "\": "
                                \o JsonDumps(h, o.items[i].v)],
                        ", ") \o "}"

\* n spaces
RECURSIVE Spaces(_)
Spaces(n) == IF n <= 0 THEN "" ELSE " " \o Spaces(n - 1)

\* json.dumps(x, indent=2), x at nesting depth d
RECURSIVE JsonDumpsIndent(_, _, _)
JsonDumpsIndent(h, x, d) ==
    LET o == Deref(h, x)
        open == "\n" \o Spaces(2 * (d + 1))
        close == "\n" \o Spaces(2 * d)
    IN
    CASE o.t = "list" /\ Len(o.xs) > 0 ->
            "[" \o open
                \o Join([i \in 1..Len(o.xs) |-> JsonDumpsIndent(h, o.xs[i], d + 1)],
                        "," \o open)
                \o close \o "]"
      [] o.t = "dict" /\ Len(o.items) > 0 ->
            "{" \o open
                \o Join([i \in 1..Len(o.items) |->
                           "\"" \o JsonEscape(o.items[i].k) \o "\": "
                                \o JsonDumpsIndent(h, o.items[i].v, d + 1)],
                        "," \o open)
                \o close \o "}"
      [] OTHER -> JsonDumps(h, x)

\* the characters _count_tokens counts as special
SpecialChars == {"{", "}", "[", "]", "(", ")", ":", ",", "\"", "'"}

\* _count_tokens(text), the estimate used when tiktoken is not installed
_count_tokens(text) ==
    LET special == Cardinality({i \in 1..Len(text) : CharAt(text, i) \in SpecialChars})
    IN Len(text) \div 4 + special \div 2

---------------------------------------------------------------------------
(* Python dicts: items in insertion order *)

DictKeys(items) == [i \in 1..Len(items) |-> items[i].k]

DictHas(items, k) == \E i \in 1..Len(items) : items[i].k = k

DictGet(items, k) ==
    items[CHOOSE i \in 1..Len(items) : items[i].k = k].v

\* d[k] = v: an existing key keeps its place
DictSet(items, k, v) ==
    With(items, LAMBDA its :
        IF DictHas(its, k)
        THEN [i \in 1..Len(its) |-> IF its[i].k = k THEN Item(k, v) ELSE its[i]]
        ELSE Append(its, Item(k, v)))

\* d.update(e)
RECURSIVE DictUpdate(_, _)
DictUpdate(items, e) ==
    With(e, LAMBDA es :
        IF Len(es) = 0 THEN items
        ELSE DictUpdate(DictSet(items, es[1].k, es[1].v), Tail(es)))

\* del d[k]
DictDel(items, k) ==
    LET keep == {i \in 1..Len(items) : items[i].k # k}
        RECURSIVE Pick(_)
        Pick(i) == IF i > Len(items) THEN <<>>
                   ELSE IF i \in keep THEN <<items[i]>> \o Pick(i + 1)
                   ELSE Pick(i + 1)
    IN Pick(1)

---------------------------------------------------------------------------
(* SchemaBasedGenerator *)

HIGH_PRIORITY_FIELDS ==
    {"id", "name", "title", "status", "type", "role",
     "email", "category", "price", "total", "state"}

MEDIUM_PRIORITY_FIELDS ==
    {"description", "summary", "created_at", "updated_at",
     "author", "owner", "user_id", "department", "company",
     "rating", "quantity", "amount", "currency"}

ENTITY_KEY_FIELDS ==
    [user |-> <<"name", "role", "department", "status", "email">>,
     product |-> <<"name", "category", "price", "in_stock", "rating">>,
     order |-> <<"id", "status", "total", "user_id", "payment_status">>,
     article |-> <<"title", "author", "topic", "status", "word_count">>,
     document |-> <<"title", "type", "author", "status">>,
     transaction |-> <<"id", "type", "amount", "status", "timestamp">>]

\* seq[:n]
Take(seq, n) == SubSeq(seq, 1, IF Len(seq) < n THEN Len(seq) ELSE n)

\* an outcome of a call: a returned value or a raised exception
Returned(v) == [ok |-> TRUE, v |-> v]
Raised(e) == [ok |-> FALSE, err |-> e]

\* _flatten_data(data, prefix): the flattened items, in insertion order
RECURSIVE _flatten_data(_, _, _)
_flatten_data(h, d, prefix) ==
    LET items == Deref(h, d).items
        RECURSIVE Loop(_, _)
        Loop(i, res) ==
            IF i > Len(items) THEN res
            ELSE LET key == items[i].k
                     value == items[i].v
                     full_key == IF prefix # "" THEN prefix \o "_" \o key ELSE key
                 IN IF IsDict(h, value)
                    THEN Loop(i + 1, DictUpdate(res, _flatten_data(h, value, full_key)))
                    ELSE Loop(i + 1,
                              IF prefix # ""
                              THEN DictSet(DictSet(res, full_key, value), key, value)
                              ELSE DictSet(res, full_key, value))
    IN Loop(1, <<>>)

\* path.split(".")
RECURSIVE SplitDots(_)
SplitDots(path) ==
    IF ~Contains(path, ".") THEN <<path>>
    ELSE LET i == CHOOSE j \in 1..Len(path) :
                    /\ CharAt(path, j) = "."
                    /\ \A m \in 1..(j - 1) : CharAt(path, m) # "."
         IN <<SubSeq(path, 1, i - 1)>> \o SplitDots(SubSeq(path, i + 1, Len(path)))

\* _get_nested(data, path): the value at the dotted path, or None
_get_nested(h, d, path) ==
    LET parts == SplitDots(path)
        RECURSIVE Walk(_, _)
        Walk(i, value) ==
            IF i > Len(parts) THEN value
            ELSE IF IsDict(h, value) /\ DictHas(Deref(h, value).items, parts[i])
                 THEN Walk(i + 1, DictGet(Deref(h, value).items, parts[i]))
                 ELSE PyNone
    IN Walk(1, d)

\* a simplification that renders every sequence, text included, by its length
_simplify_value_counting(h, value) ==
    LET o == Deref(h, value) IN
    IF o.t = "list" THEN PyStr("[" \o IntToStr(Len(o.xs)) \o " items]")
    ELSE IF o.t = "str" THEN PyStr("[" \o IntToStr(Len(o.s)) \o " items]")
    ELSE value

\* _simplify_value(value)
_simplify_value(h, value) ==
    LET o == Deref(h, value) IN
    IF o.t = "dict" THEN
        IF DictHas(o.items, "name") THEN DictGet(o.items, "name")
        ELSE IF DictHas(o.items, "id") THEN DictGet(o.items, "id")
        ELSE IF DictHas(o.items, "value") THEN DictGet(o.items, "value")
        ELSE IF \E i \in 1..Len(o.items) : Deref(h, o.items[i].v).t = "str"
             THEN o.items[CHOOSE i \in 1..Len(o.items) :
                        /\ Deref(h, o.items[i].v).t = "str"
                        /\ \A j \in 1..(i - 1) : Deref(h, o.items[j].v).t # "str"].v
        ELSE PyStr(ToStr(h, value))
    ELSE IF o.t = "list" THEN
        IF Len(o.xs) = 0 THEN PyList(<<>>)
        ELSE IF /\ Len(o.xs) <= 3
                /\ \A i \in 1..Len(o.xs) :
                      Deref(h, o.xs[i]).t \in {"str", "int", "bool", "float"}
             THEN value
        ELSE PyStr("[" \o IntToStr(Len(o.xs)) \o " items]")
    ELSE value

\* _extract_fields(data, fields)
_extract_fields(h, d, fields) ==
    LET items == Deref(h, d).items
        RECURSIVE Loop(_, _)
        Loop(i, res) ==
            IF i > Len(fields) THEN res
            ELSE LET field == fields[i] IN
                 IF Contains(field, ".")
                 THEN LET value == _get_nested(h, d, field) IN
                      IF value.t # "none"
                      THEN Loop(i + 1, DictSet(res, StrReplace(field, ".", "_"), value))
                      ELSE Loop(i + 1, res)
                 ELSE IF DictHas(items, field)
                 THEN Loop(i + 1,
                           DictSet(res, field, _simplify_value(h, DictGet(items, field))))
                 ELSE Loop(i + 1, res)
    IN Loop(1, <<>>)

\* key facts that take every medium-priority field, with no limit
_auto_key_facts_unbounded(h, d, entity_type) ==
    LET items == Deref(h, d).items
        RECURSIVE Specific(_, _, _)
        Specific(fields, i, res) ==
            IF i > Len(fields) THEN res
            ELSE LET field == fields[i] IN
                 IF DictHas(items, field)
                 THEN Specific(fields, i + 1,
                               DictSet(res, field, _simplify_value(h, DictGet(items, field))))
                 ELSE IF Contains(field, ".") /\ _get_nested(h, d, field).t # "none"
                 THEN Specific(fields, i + 1,
                               DictSet(res, StrReplace(field, ".", "_"),
                                       _get_nested(h, d, field)))
                 ELSE Specific(fields, i + 1, res)
        RECURSIVE High(_, _)
        High(i, res) ==
            IF i > Len(items) THEN res
            ELSE IF items[i].k \in HIGH_PRIORITY_FIELDS
                 THEN High(i + 1, DictSet(res, items[i].k, _simplify_value(h, items[i].v)))
                 ELSE High(i + 1, res)
        RECURSIVE Medium(_, _)
        Medium(i, res) ==
            IF i > Len(items) THEN res
            ELSE IF items[i].k \in MEDIUM_PRIORITY_FIELDS /\ ~DictHas(res, items[i].k)
                 THEN Medium(i + 1, DictSet(res, items[i].k, _simplify_value(h, items[i].v)))
                 ELSE Medium(i + 1, res)
    IN IF entity_type \in DOMAIN ENTITY_KEY_FIELDS
       THEN Specific(ENTITY_KEY_FIELDS[entity_type], 1, <<>>)
       ELSE LET high == High(1, <<>>)
            IN IF Len(high) < 4 THEN Medium(1, high) ELSE high

\* _auto_key_facts(data, entity_type)
_auto_key_facts(h, d, entity_type) ==
    LET items == Deref(h, d).items
        RECURSIVE Specific(_, _, _)
        Specific(fields, i, res) ==
            IF i > Len(fields) THEN res
            ELSE LET field == fields[i] IN
                 IF DictHas(items, field)
                 THEN Specific(fields, i + 1,
                               DictSet(res, field, _simplify_value(h, DictGet(items, field))))
                 ELSE IF Contains(field, ".") /\ _get_nested(h, d, field).t # "none"
                 THEN Specific(fields, i + 1,
                               DictSet(res, StrReplace(field, ".", "_"),
                                       _get_nested(h, d, field)))
                 ELSE Specific(fields, i + 1, res)
        RECURSIVE High(_, _)
        High(i, res) ==
            IF i > Len(items) THEN res
            ELSE IF items[i].k \in HIGH_PRIORITY_FIELDS
                 THEN High(i + 1, DictSet(res, items[i].k, _simplify_value(h, items[i].v)))
                 ELSE High(i + 1, res)
        RECURSIVE Medium(_, _)
        Medium(i, res) ==
            IF i > Len(items) THEN res
            ELSE IF items[i].k \in MEDIUM_PRIORITY_FIELDS /\ ~DictHas(res, items[i].k)
                 THEN LET r == DictSet(res, items[i].k, _simplify_value(h, items[i].v))
                      IN IF Len(r) >= 6 THEN r ELSE Medium(i + 1, r)
                 ELSE Medium(i + 1, res)
    IN IF entity_type \in DOMAIN ENTITY_KEY_FIELDS
       THEN Specific(ENTITY_KEY_FIELDS[entity_type], 1, <<>>)
       ELSE LET high == High(1, <<>>)
            IN IF Len(high) < 4 THEN Medium(1, high) ELSE high

\* key facts chosen from the entity type alone, whatever fields are asked
generate_l2_auto(h, d, entity_type, fields) == _auto_key_facts(h, d, entity_type)

\* generate_l2(data, entity_type, key_fields): the items of the key facts
generate_l2(h, d, entity_type, fields) ==
    IF Len(fields) > 0
    THEN _extract_fields(h, d, fields)
    ELSE _auto_key_facts(h, d, entity_type)

\* a summary in which an id is a part like any other priority field
_auto_summary_with_id(h, d, entity_type, order) ==
    LET priority_fields(flat) ==
            IF entity_type \in DOMAIN ENTITY_KEY_FIELDS
            THEN Take(ENTITY_KEY_FIELDS[entity_type], 4)
            ELSE Take(SelectSeq(order, LAMBDA f : DictHas(flat, f)), 4)
        RECURSIVE Build(_, _, _, _)
        Build(flat, fields, i, parts) ==
            IF i > Len(fields) THEN parts
            ELSE IF DictHas(flat, fields[i]) /\ Truthy(h, DictGet(flat, fields[i]))
                 THEN Build(flat, fields, i + 1,
                            Append(parts, ToStr(h, DictGet(flat, fields[i]))))
                 ELSE Build(flat, fields, i + 1, parts)
        RECURSIVE Fallback(_, _, _)
        Fallback(flat, i, parts) ==
            IF i > Len(flat) THEN parts
            ELSE IF /\ Deref(h, flat[i].v).t = "str"
                    /\ Deref(h, flat[i].v).s # ""
                    /\ Len(parts) < 3
                 THEN Fallback(flat, i + 1, Append(parts, Deref(h, flat[i].v).s))
                 ELSE Fallback(flat, i + 1, parts)
        OrFallback(flat, parts) ==
            IF Len(parts) = 0 THEN Fallback(flat, 1, <<>>) ELSE parts
        Joined(parts) ==
            IF Len(parts) > 0 THEN Join(parts, ", ") ELSE entity_type \o " entity"
        Summary(flat) ==
            Joined(OrFallback(flat, Build(flat, priority_fields(flat), 1, <<>>)))
    IN With(_flatten_data(h, d, ""), Summary)

\* _auto_summary(data, entity_type); order is the iteration order of the
\* HIGH_PRIORITY_FIELDS set in this process
_auto_summary(h, d, entity_type, order) ==
    LET priority_fields(flat) ==
            IF entity_type \in DOMAIN ENTITY_KEY_FIELDS
            THEN Take(ENTITY_KEY_FIELDS[entity_type], 4)
            ELSE Take(SelectSeq(order, LAMBDA f : DictHas(flat, f)), 4)
        RECURSIVE Build(_, _, _, _)
        Build(flat, fields, i, parts) ==
            IF i > Len(fields) THEN parts
            ELSE IF DictHas(flat, fields[i]) /\ Truthy(h, DictGet(flat, fields[i]))
                 THEN IF fields[i] = "id" /\ (DictHas(flat, "name") \/ DictHas(flat, "title"))
                      THEN Build(flat, fields, i + 1, parts)
                      ELSE Build(flat, fields, i + 1,
                                 Append(parts, ToStr(h, DictGet(flat, fields[i]))))
                 ELSE Build(flat, fields, i + 1, parts)
        RECURSIVE Fallback(_, _, _)
        Fallback(flat, i, parts) ==
            IF i > Len(flat) THEN parts
            ELSE IF /\ Deref(h, flat[i].v).t = "str"
                    /\ Deref(h, flat[i].v).s # ""
                    /\ Len(parts) < 3
                 THEN Fallback(flat, i + 1, Append(parts, Deref(h, flat[i].v).s))
                 ELSE Fallback(flat, i + 1, parts)
        OrFallback(flat, parts) ==
            IF Len(parts) = 0 THEN Fallback(flat, 1, <<>>) ELSE parts
        Joined(parts) ==
            IF Len(parts) > 0 THEN Join(parts, ", ") ELSE entity_type \o " entity"
        Summary(flat) ==
            Joined(OrFallback(flat, Build(flat, priority_fields(flat), 1, <<>>)))
    IN With(_flatten_data(h, d, ""), Summary)

\* the characters that start a conversion, a format spec, an attribute or
\* an index inside a replacement field
FieldSyntaxChars == {"!", ":", ".", "[", "]", "{"}

IsDigits(s) == \A i \in 1..Len(s) : CharAt(s, i) \in {"0", "1", "2", "3", "4", "5", "6", "7", "8", "9"}

\* template.format(**flat) for replacement fields that are plain names
StrFormat(h, template, flat) ==
    LET n == Len(template)
        Then(s, rest) == IF rest.ok THEN Returned(s \o rest.v) ELSE rest
        RECURSIVE Scan(_)
        Scan(i) ==
            IF i > n THEN Returned("")
            ELSE LET c == CharAt(template, i) IN
                 IF c = "{" THEN
                     IF i < n /\ CharAt(template, i + 1) = "{"
                     THEN Then("{", Scan(i + 2))
                     ELSE IF ~\E j \in (i + 1)..n : CharAt(template, j) = "}"
                     THEN Raised("ValueError")
                     ELSE LET j == CHOOSE m \in (i + 1)..n :
                                     /\ CharAt(template, m) = "}"
                                     /\ \A q \in (i + 1)..(m - 1) : CharAt(template, q) # "}"
                              name == SubSeq(template, i + 1, j - 1)
                          IN IF \E q \in 1..Len(name) : CharAt(name, q) \in FieldSyntaxChars
                             THEN Raised("Unmodelled")
                             ELSE IF IsDigits(name) THEN Raised("IndexError")
                             ELSE IF DictHas(flat, name)
                             THEN Then(ToStr(h, DictGet(flat, name)), Scan(j + 1))
                             ELSE Raised("KeyError")
                 ELSE IF c = "}" THEN
                     IF i < n /\ CharAt(template, i + 1) = "}"
                     THEN Then("}", Scan(i + 2))
                     ELSE Raised("ValueError")
                 ELSE Then(c, Scan(i + 1))
    IN Scan(1)

\* _apply_template(data, template)
_apply_template(h, d, template) ==
    LET RECURSIVE Substitute(_, _, _)
        Substitute(flat, i, res) ==
            IF i > Len(flat) THEN res
            ELSE Substitute(flat, i + 1,
                            StrReplace(res, "{" \o flat[i].k \o "}", ToStr(h, flat[i].v)))
        OrSubstitute(flat, formatted) ==
            IF formatted.ok THEN formatted
            ELSE IF formatted.err = "KeyError" THEN Returned(Substitute(flat, 1, template))
            ELSE formatted
        Apply(flat) == OrSubstitute(flat, StrFormat(h, template, flat))
    IN Apply(_flatten_data(h, d, ""))

\* a summary made without the entity type
generate_l1_unlabelled(h, d, entity_type, template, order) ==
    IF Truthy(h, template)
    THEN _apply_template(h, d, template.s)
    ELSE Returned(_auto_summary(h, d, "", order))

\* SchemaBasedGenerator.generate_l1(data, entity_type, template)
generate_l1(h, d, entity_type, template, order) ==
    IF Truthy(h, template)
    THEN _apply_template(h, d, template.s)
    ELSE Returned(_auto_summary(h, d, entity_type, order))

---------------------------------------------------------------------------
(* The caller's record as objects: each container of the record is an     *)
(* object of the heap, named by its path from the top-level dict.         *)

Child(x, i) == IF x.t = "dict" THEN x.items[i].v ELSE x.xs[i]

IsContainer(x) == x.t \in {"list", "dict"}

RECURSIVE ContainerPaths(_, _)
ContainerPaths(x, p) ==
    IF IsContainer(x)
    THEN {p} \cup UNION {ContainerPaths(Child(x, i), Append(p, i)) : i \in 1..Len(Elems(x))}
    ELSE {}

RECURSIVE SubTree(_, _)
SubTree(x, p) == IF Len(p) = 0 THEN x ELSE SubTree(Child(x, Head(p)), Tail(p))

\* the container x, found at path p, with its nested containers by reference
Shallow(x, p) ==
    LET slot(i) == IF IsContainer(Child(x, i)) THEN Ref(Append(p, i)) ELSE Child(x, i)
    IN IF x.t = "dict"
       THEN PyDict([i \in 1..Len(x.items) |-> Item(x.items[i].k, slot(i))])
       ELSE PyList([i \in 1..Len(x.xs) |-> slot(i)])

Load(tree) == [p \in ContainerPaths(tree, <<>>) |-> Shallow(SubTree(tree, p), p)]

\* the value x with every reference replaced by the object it denotes
RECURSIVE Resolve(_, _)
Resolve(h, x) ==
    LET o == Deref(h, x) IN
    IF o.t = "dict"
    THEN PyDict([i \in 1..Len(o.items) |-> Item(o.items[i].k, Resolve(h, o.items[i].v))])
    ELSE IF o.t = "list"
    THEN PyList([i \in 1..Len(o.xs) |-> Resolve(h, o.xs[i])])
    ELSE o

---------------------------------------------------------------------------
(* ACPDocument *)

\* a copy that takes no item
EmptyCopy(h, d) == PyDict(<<>>)

\* d.copy(): a new dict with the same items (nested objects are shared)
DictCopy(h, d) == PyDict(Deref(h, d).items)

\* counts in which the summary's count is that of the summary held before
StaleSummaryCount(h, a0, a1, a2, a3) ==
    PyDict(<<Item("L0", PyInt(_count_tokens(a0))),
             Item("L1", PyInt(_count_tokens(l1))),
             Item("L2", PyInt(_count_tokens(JsonDumps(h, a2)))),
             Item("L3", PyInt(_count_tokens(JsonDumps(h, a3))))>>)

\* _calculate_tokens(), on the levels given
_calculate_tokens(h, a0, a1, a2, a3) ==
    PyDict(<<Item("L0", PyInt(_count_tokens(a0))),
             Item("L1", PyInt(_count_tokens(a1))),
             Item("L2", PyInt(_count_tokens(JsonDumps(h, a2)))),
             Item("L3", PyInt(_count_tokens(JsonDumps(h, a3))))>>)

\* generate_levels() from the statement that assigns l1 on, summary being
\* the value that generate_l1 returned; h, d, ent and fields are the heap
\* and the data, entity and key_fields of the document
generate_levels(h, d, ent, fields, summary) ==
    /\ l0' = "exists"
    /\ l1' = summary
    /\ l2' = PyDict(generate_l2(h, d, ent, fields))
    /\ l3' = DictCopy(h, d)
    /\ token_counts' = _calculate_tokens(h, l0', l1', l2', l3')

\* ResolutionLevel members
L0_EXISTENCE == [t |-> "enum", e |-> 0]
L1_SUMMARY == [t |-> "enum", e |-> 1]
L2_KEY_FACTS == [t |-> "enum", e |-> 2]
L3_FULL == [t |-> "enum", e |-> 3]
ResolutionLevel == {L0_EXISTENCE, L1_SUMMARY, L2_KEY_FACTS, L3_FULL}

\* isinstance(x, int): an IntEnum member and a bool are ints
IsInstanceInt(x) == x.t \in {"enum", "int", "bool"}

\* x == m for a member m of ResolutionLevel: numbers compare by value
LevelEq(x, m) ==
    CASE x.t = "enum" -> x.e = m.e
      [] x.t = "int" -> x.n = m.e
      [] x.t = "bool" -> (IF x.b THEN 1 ELSE 0) = m.e
      [] x.t = "float" -> x.f = 10 * m.e
      [] OTHER -> FALSE

\* _get_level(level); ResolutionLevel(level) raises for an int that is no member
_get_level(level) ==
    IF IsInstanceInt(level) /\ ~\E m \in ResolutionLevel : LevelEq(level, m)
    THEN Raised("ValueError")
    ELSE IF LevelEq(level, L0_EXISTENCE) THEN Returned(PyStr(l0))
    ELSE IF LevelEq(level, L1_SUMMARY) THEN Returned(PyStr(l1))
    ELSE IF LevelEq(level, L2_KEY_FACTS) THEN Returned(l2)
    ELSE IF LevelEq(level, L3_FULL) THEN Returned(l3)
    ELSE Raised("ValueError")

\* a level fits only when its count is below the budget
FitsBelow(name, budget) ==
    DictHas(token_counts.items, name) /\ DictGet(token_counts.items, name).n < budget

\* a level without a count fits every budget
FitsOrUncounted(name, budget) ==
    DictHas(token_counts.items, name) => DictGet(token_counts.items, name).n <= budget

\* token_counts.get(name, float("inf")) <= budget
Fits(name, budget) ==
    DictHas(token_counts.items, name) /\ DictGet(token_counts.items, name).n <= budget

\* _get_by_budget(budget)
_get_by_budget(budget) ==
    IF Fits("L3", budget) THEN l3
    ELSE IF Fits("L2", budget) THEN l2
    ELSE IF Fits("L1", budget) THEN PyStr(l1)
    ELSE PyStr(l0)

\* get that serves the existence level when it is given no argument
get_or_l0(level, token_budget) ==
    IF level # PyNone THEN _get_level(level)
    ELSE IF token_budget # PyNone THEN Returned(_get_by_budget(token_budget.n))
    ELSE Returned(PyStr(l0))

\* get that tests the truth of level, so that level 0 counts as not given
get_if_level(level, token_budget) ==
    IF level # PyNone /\ ~LevelEq(level, L0_EXISTENCE) THEN _get_level(level)
    ELSE IF token_budget # PyNone THEN Returned(_get_by_budget(token_budget.n))
    ELSE Raised("ValueError")

\* a get that looks at the budget first
get_budget_first(level, token_budget) ==
    IF token_budget # PyNone THEN Returned(_get_by_budget(token_budget.n))
    ELSE IF level # PyNone THEN _get_level(level)
    ELSE Raised("ValueError")

\* get(level, token_budget)
get(level, token_budget) ==
    IF level # PyNone THEN _get_level(level)
    ELSE IF token_budget # PyNone THEN Returned(_get_by_budget(token_budget.n))
    ELSE Raised("ValueError")

\* s.split("\n")
RECURSIVE SplitLines(_)
SplitLines(s) ==
    IF ~Contains(s, "\n") THEN <<s>>
    ELSE LET i == CHOOSE j \in 1..Len(s) :
                    /\ CharAt(s, j) = "\n"
                    /\ \A m \in 1..(j - 1) : CharAt(s, m) # "\n"
         IN <<SubSeq(s, 1, i - 1)>> \o SplitLines(SubSeq(s, i + 1, Len(s)))

\* to_acp_format(level)
to_acp_format(level) ==
    LET want(m) == level = PyNone \/ LevelEq(level, m)
        header == <<"@acp 1.0", "@entity: " \o entity, "@id: " \o id, "">>
        b0 == IF want(L0_EXISTENCE) THEN <<"L0: " \o l0, "">> ELSE <<>>
        b1 == IF want(L1_SUMMARY) THEN <<"L1: \"" \o l1 \o "\"", "">> ELSE <<>>
        b2 == IF want(L2_KEY_FACTS)
              THEN <<"L2:">>
                   \o [i \in 1..Len(l2.items) |->
                         "  " \o l2.items[i].k \o ": " \o ToStr(heap, l2.items[i].v)]
                   \o <<"">>
              ELSE <<>>
        dump == SplitLines(JsonDumpsIndent(heap, l3, 0))
        b3 == IF want(L3_FULL)
              THEN <<"L3:">> \o [i \in 1..Len(dump) |-> "  " \o dump[i]] \o <<"">>
              ELSE <<>>
        meta == <<"@meta:", "  tokens: " \o PyRepr(heap, token_counts),
                  "  generated: " \o generated_at>>
    IN Join(header \o b0 \o b1 \o b2 \o b3 \o meta, "\n")

\* the dict that to_json() dumps, built from the attributes as they are read
Envelope(a0, a1, a2, a3, counts) ==
    PyDict(<<Item("acp_version", PyStr("1.0")),
             Item("entity", PyStr(entity)),
             Item("id", PyStr(id)),
             Item("levels", PyDict(<<Item("L0", PyStr(a0)), Item("L1", PyStr(a1)),
                                     Item("L2", a2), Item("L3", a3)>>)),
             Item("meta", PyDict(<<Item("tokens", counts),
                                   Item("generated", PyStr(generated_at))>>))>>)

\* to_json(level)
to_json(level) ==
    IF level # PyNone
    THEN (LET dumped(r) == IF r.ok THEN Returned(PyStr(JsonDumpsIndent(heap, r.v, 0))) ELSE r
          IN dumped(get(level, PyNone)))
    ELSE Returned(PyStr(JsonDumpsIndent(heap, Envelope(l0, l1, l2, l3, token_counts), 0)))

---------------------------------------------------------------------------
(* The inputs the caller draws from *)

MaxFields == 2
MaxBudget == 12
MaxLevelArg == 4

FieldPool ==
    {Item("name", PyStr("Al")),
     Item("id", PyInt(7)),
     Item("role", PyStr("dev")),
     Item("tags", PyList(<<PyInt(1), PyInt(2)>>)),
     Item("author", PyDict(<<Item("name", PyStr("Bo")),
                             Item("langs", PyList(<<PyStr("en")>>))>>))}

\* the records of n fields with distinct keys, in every order
RECURSIVE RecordsOfLen(_)
RecordsOfLen(n) ==
    IF n = 0 THEN {<<>>}
    ELSE UNION {{Append(r, f) : f \in {g \in FieldPool : ~DictHas(r, g.k)}}
                : r \in RecordsOfLen(n - 1)}

Records == UNION {RecordsOfLen(n) : n \in 0..MaxFields}

Entities == {"user", "widget"}
Ids == {"e1"}
KeyFieldChoices == {<<>>, <<"name", "tags", "author.langs">>}
Templates == {PyNone, PyStr("{name} ({role})"), PyStr("{}")}
Clock == {"2024-01-01T00:00:00"}

\* iteration orders of the HIGH_PRIORITY_FIELDS set (it depends on the
\* process's string hashing)
HashOrders ==
    {<<"id", "name", "title", "status", "type", "role",
       "email", "category", "price", "total", "state">>,
     <<"state", "total", "role", "price", "category", "email",
       "name", "type", "status", "title", "id">>}

LevelArgs ==
    ResolutionLevel
    \cup {PyInt(n) : n \in (-1)..MaxLevelArg}
    \cup {PyBool(TRUE), PyStr("L1"), PyFloat(10), PyFloat(25)}

BudgetArgs == {PyInt(n) : n \in (-1)..MaxBudget}

---------------------------------------------------------------------------
(* The caller's calls on one document *)

NoCall == [op |-> "none"]
Call(op, level, budget, out) ==
    [op |-> op, level |-> level, budget |-> budget, out |-> out]

\* what the document holds, by value
DocView(h, d, a0, a1, a2, a3, counts) ==
    [data |-> Resolve(h, d), l0 |-> a0, l1 |-> a1, l2 |-> Resolve(h, a2),
     l3 |-> Resolve(h, a3), token_counts |-> counts]

NoThreads == [writer |-> "idle", reader |-> "idle", seen |-> <<>>]
NoLLM == [pc |-> "idle"]

Init ==
    /\ heap = <<>>
    /\ built = FALSE
    /\ auto_generate = FALSE
    /\ entity = ""
    /\ id = ""
    /\ data = PyNone
    /\ l0 = "exists"
    /\ l1 = ""
    /\ l2 = PyDict(<<>>)
    /\ l3 = PyDict(<<>>)
    /\ token_counts = PyDict(<<>>)
    /\ generated_at = ""
    /\ key_fields = <<>>
    /\ summary_template = PyNone
    /\ hash_order \in HashOrders
    /\ result = NoCall
    /\ snapshot = NoCall
    /\ mutations = 0
    /\ threads = NoThreads
    /\ llm = NoLLM

\* ACPDocument.from_dict(rec, ent, ident, fields, tpl, auto), called at time
\* now; an exception of generate_levels leaves the caller without a document
FromDict(rec, ent, ident, fields, tpl, auto, now) ==
    /\ ~built
    /\ result = NoCall
    /\ \E h \in {Load(PyDict(rec))} :
       \E s \in {IF auto THEN generate_l1(h, Ref(<<>>), ent, tpl, hash_order)
                         ELSE Returned("")} :
          IF ~s.ok
          THEN /\ result' = Call("from_dict", PyNone, PyNone, s)
               /\ UNCHANGED <<heap, docvars, snapshot>>
          ELSE /\ heap' = h
               /\ built' = TRUE
               /\ auto_generate' = auto
               /\ entity' = ent
               /\ id' = ident
               /\ data' = Ref(<<>>)
               /\ key_fields' = fields
               /\ summary_template' = tpl
               /\ generated_at' = now
               /\ IF auto
                  THEN generate_levels(h, Ref(<<>>), ent, fields, s.v)
                  ELSE /\ l0' = "exists"
                       /\ l1' = ""
                       /\ l2' = PyDict(<<>>)
                       /\ l3' = DictCopy(h, Ref(<<>>))
                       /\ token_counts' = PyDict(<<>>)
               /\ snapshot' = DocView(heap', data', l0', l1', l2', l3', token_counts')
               /\ result' = Call("from_dict", PyNone, PyNone, Returned(PyBool(auto)))
    /\ UNCHANGED othervars

\* doc.generate_levels(); an exception of generate_l1 leaves l1, l2, l3 and
\* the counts as they were
GenerateLevels ==
    /\ built
    /\ result = NoCall
    /\ \E s \in {generate_l1(heap, data, entity, summary_template, hash_order)} :
          IF s.ok
          THEN /\ generate_levels(heap, data, entity, key_fields, s.v)
               /\ result' = Call("generate_levels", PyNone, PyNone, Returned(PyNone))
          ELSE /\ l0' = "exists"
               /\ UNCHANGED <<l1, l2, l3, token_counts>>
               /\ result' = Call("generate_levels", PyNone, PyNone, s)
    /\ UNCHANGED <<heap, built, auto_generate, entity, id, data, generated_at,
                   key_fields, summary_template, snapshot, othervars>>

\* doc.get(level, token_budget)
Get(level, token_budget) ==
    /\ built
    /\ result = NoCall
    /\ result' = Call("get", level, token_budget, get(level, token_budget))
    /\ UNCHANGED <<heap, docvars, snapshot, othervars>>

\* doc.to_json(level)
ToJson(level) ==
    /\ built
    /\ result = NoCall
    /\ result' = Call("to_json", level, PyNone, to_json(level))
    /\ UNCHANGED <<heap, docvars, snapshot, othervars>>

\* doc.to_acp_format(level)
ToAcpFormat(level) ==
    /\ built
    /\ result = NoCall
    /\ result' = Call("to_acp_format", level, PyNone, Returned(PyStr(to_acp_format(level))))
    /\ UNCHANGED <<heap, docvars, snapshot, othervars>>

\* the caller takes the outcome of its call
Return ==
    /\ result # NoCall
    /\ result' = NoCall
    /\ UNCHANGED <<heap, docvars, snapshot, othervars>>

Next ==
    \/ \E rec \in Records, ent \in Entities, ident \in Ids, fields \in KeyFieldChoices,
          tpl \in Templates, auto \in BOOLEAN, now \in Clock :
          FromDict(rec, ent, ident, fields, tpl, auto, now)
    \/ GenerateLevels
    \/ \E level \in LevelArgs \cup {PyNone}, budget \in BudgetArgs \cup {PyNone} :
          /\ (level # PyNone /\ budget # PyNone) => budget.n = MaxBudget
          /\ Get(level, budget)
    \/ \E level \in {PyNone, L1_SUMMARY, PyInt(MaxLevelArg)} : ToJson(level)
    \/ \E level \in {PyNone, L2_KEY_FACTS} : ToAcpFormat(level)
    \/ Return

Spec == Init /\ [][Next]_vars

---------------------------------------------------------------------------
(* Properties of the calls on one document *)

LevelNames == <<"L0", "L1", "L2", "L3">>

\* the stored rendering of level k
Stored(k) ==
    CASE k = 0 -> PyStr(l0)
      [] k = 1 -> PyStr(l1)
      [] k = 2 -> l2
      [] k = 3 -> l3

HasCount(k) == DictHas(token_counts.items, LevelNames[k + 1])
CountOf(k) == DictGet(token_counts.items, LevelNames[k + 1]).n

\* the levels whose count is within the budget
FittingLevels(budget) == {k \in 0..3 : HasCount(k) /\ CountOf(k) <= budget}

Highest(S) == CHOOSE k \in S : \A j \in S : j <= k

ByBudget == result.op = "get" /\ result.level = PyNone /\ result.budget # PyNone

\* C1: on a document that from_dict generated, get(token_budget=b) returns,
\* for every integer b, the stored rendering of the highest level whose
\* count is at most b, and l0 when no count is; it never raises.
C1_BudgetSelection ==
    (ByBudget /\ auto_generate) =>
        result.out = Returned(IF FittingLevels(result.budget.n) = {}
                              THEN PyStr(l0)
                              ELSE Stored(Highest(FittingLevels(result.budget.n))))

\* a budget that admits the key facts but not the full record
C1_Witness ==
    /\ ByBudget
    /\ auto_generate
    /\ FittingLevels(result.budget.n) = {0, 1, 2}
    /\ CountOf(2) = result.budget.n
    /\ result.out = Returned(l2)
    /\ l2 # l3

\* C2: on a document that from_dict generated, after any calls, the counts
\* have exactly the keys L0..L3 and each is the estimate of the level as it
\* is now (l0, l1 as text, l2, l3 as their JSON dump).
C2_CountsFollowLevels ==
    (built /\ auto_generate) =>
        /\ DictKeys(token_counts.items) = LevelNames
        /\ CountOf(0) = _count_tokens(l0)
        /\ CountOf(1) = _count_tokens(l1)
        /\ CountOf(2) = _count_tokens(JsonDumps(heap, l2))
        /\ CountOf(3) = _count_tokens(JsonDumps(heap, l3))

\* a regeneration of a generated document with a summary and key facts
C2_Witness ==
    /\ built
    /\ auto_generate
    /\ result.op = "generate_levels"
    /\ result.out.ok
    /\ l1 # ""
    /\ Len(l2.items) > 0

\* C3: for a record with at least one field, the counts of a document that
\* from_dict generated do not decrease with the level.
C3_CountsIncrease ==
    (built /\ auto_generate /\ Len(Deref(heap, data).items) > 0) =>
        /\ CountOf(0) <= CountOf(1)
        /\ CountOf(1) <= CountOf(2)
        /\ CountOf(2) <= CountOf(3)

\* C4: get(level=L3) returns a value equal to the document's data, in every
\* state after from_dict (generating or not) and after generate_levels.
C4_FullIsData ==
    (result.op = "get" /\ result.level = L3_FULL) =>
        /\ result.out.ok
        /\ Resolve(heap, result.out.v) = Resolve(heap, data)

\* the full level of a nested record, read from a document built without
\* generation
C4_Witness ==
    /\ result.op = "get"
    /\ result.level = L3_FULL
    /\ ~auto_generate
    /\ result.out.ok
    /\ \E i \in 1..Len(result.out.v.items) : result.out.v.items[i].v.t = "ref"

\* C7: get with neither a level nor a budget raises ValueError, whatever the
\* document holds, and changes nothing of the document.
C7_NeitherArgument ==
    [][(/\ result = NoCall
        /\ result'.op = "get"
        /\ result'.level = PyNone
        /\ result'.budget = PyNone)
       => (result'.out = Raised("ValueError") /\ UNCHANGED <<heap, docvars>>)]_vars

\* the refusal, on a generated document
C7_Witness ==
    /\ result.op = "get"
    /\ result.level = PyNone
    /\ result.budget = PyNone
    /\ result.out = Raised("ValueError")
    /\ auto_generate

\* ten times the number that x is, and -1 for what is no number
Tenths(x) ==
    CASE x.t = "enum" -> 10 * x.e
      [] x.t = "int" -> 10 * x.n
      [] x.t = "bool" -> IF x.b THEN 10 ELSE 0
      [] x.t = "float" -> x.f
      [] OTHER -> -1

\* C8: get(level=x) returns the stored rendering of level k when x is the
\* enum member or the integer k of 0..3 (the same for both, 0 included),
\* raises ValueError for every other x, and changes nothing of the document.
C8_LevelLookup ==
    [][(result = NoCall /\ result'.op = "get" /\ result'.level # PyNone)
       => /\ UNCHANGED <<heap, docvars>>
          /\ result'.out =
                IF Tenths(result'.level) \in {0, 10, 20, 30}
                THEN Returned(Stored(Tenths(result'.level) \div 10))
                ELSE Raised("ValueError")]_vars

\* level 0 given as a raw integer
C8_Witness ==
    /\ result.op = "get"
    /\ result.level = PyInt(0)
    /\ result.budget = PyNone
    /\ result.out = Returned(PyStr("exists"))

---------------------------------------------------------------------------
(* The caller goes on using the record it passed to from_dict *)

MaxMutations == 2

MutationKeys == {"name", "note"}
MutationValues == {PyStr("Zed"), PyInt(9)}

\* the caller's record and the containers inside it
CallerObjects == DOMAIN heap

CanMutate ==
    /\ built
    /\ result = NoCall
    /\ mutations < MaxMutations

\* rec[k] = v
SetField(k, v) ==
    /\ CanMutate
    /\ heap' = [heap EXCEPT ![<<>>] = PyDict(DictSet(heap[<<>>].items, k, v))]
    /\ mutations' = mutations + 1
    /\ UNCHANGED <<docvars, result, snapshot, hash_order, threads, llm>>

\* del rec[k]
DelField(k) ==
    /\ CanMutate
    /\ DictHas(heap[<<>>].items, k)
    /\ heap' = [heap EXCEPT ![<<>>] = PyDict(DictDel(heap[<<>>].items, k))]
    /\ mutations' = mutations + 1
    /\ UNCHANGED <<docvars, result, snapshot, hash_order, threads, llm>>

\* x.append(v) for a list x inside the record
AppendInside(p, v) ==
    /\ CanMutate
    /\ p # <<>>
    /\ heap[p].t = "list"
    /\ heap' = [heap EXCEPT ![p] = PyList(Append(heap[p].xs, v))]
    /\ mutations' = mutations + 1
    /\ UNCHANGED <<docvars, result, snapshot, hash_order, threads, llm>>

\* x[k] = v for a dict x inside the record
SetInside(p, k, v) ==
    /\ CanMutate
    /\ p # <<>>
    /\ heap[p].t = "dict"
    /\ heap' = [heap EXCEPT ![p] = PyDict(DictSet(heap[p].items, k, v))]
    /\ mutations' = mutations + 1
    /\ UNCHANGED <<docvars, result, snapshot, hash_order, threads, llm>>

NextAlias ==
    \/ \E rec \in Records, ent \in Entities, ident \in Ids, fields \in KeyFieldChoices,
          tpl \in Templates, auto \in BOOLEAN, now \in Clock :
          FromDict(rec, ent, ident, fields, tpl, auto, now)
    \/ Return
    \/ \E k \in MutationKeys, v \in MutationValues : SetField(k, v)
    \/ \E k \in MutationKeys : DelField(k)
    \/ \E p \in CallerObjects, v \in MutationValues : AppendInside(p, v)
    \/ \E p \in CallerObjects, k \in MutationKeys, v \in MutationValues : SetInside(p, k, v)

SpecAlias == Init /\ [][NextAlias]_vars

\* C5: whatever the caller does to its record after from_dict returned, the
\* document's data, l1, l2, l3 and token counts stay what they were.
C5_DocumentInert ==
    built => DocView(heap, data, l0, l1, l2, l3, token_counts) = snapshot

---------------------------------------------------------------------------
(* One thread runs doc.generate_levels() while another reads the document. *)
(* Each attribute read and each attribute assignment is a step of its own.   *)

ReaderBudgets == {PyInt(0), PyInt(MaxBudget \div 2), PyInt(MaxBudget)}

\* generate_levels() is called: self.l0 = "exists"
WriterL0 ==
    /\ built
    /\ result = NoCall
    /\ threads.writer = "idle"
    /\ l0' = "exists"
    /\ threads' = [threads EXCEPT !.writer = "l1"]
    /\ UNCHANGED <<heap, built, auto_generate, entity, id, data, l1, l2, l3, token_counts,
                   generated_at, key_fields, summary_template, result, snapshot,
                   hash_order, mutations, llm>>

\* self.l1 = generator.generate_l1(...), whose exception ends the call
WriterL1 ==
    /\ threads.writer = "l1"
    /\ \E s \in {generate_l1(heap, data, entity, summary_template, hash_order)} :
          IF s.ok
          THEN /\ l1' = s.v
               /\ threads' = [threads EXCEPT !.writer = "l2"]
          ELSE /\ l1' = l1
               /\ threads' = [threads EXCEPT !.writer = "raised"]
    /\ UNCHANGED <<heap, built, auto_generate, entity, id, data, l0, l2, l3, token_counts,
                   generated_at, key_fields, summary_template, result, snapshot,
                   hash_order, mutations, llm>>

\* self.l2 = generator.generate_l2(...)
WriterL2 ==
    /\ threads.writer = "l2"
    /\ l2' = PyDict(generate_l2(heap, data, entity, key_fields))
    /\ threads' = [threads EXCEPT !.writer = "l3"]
    /\ UNCHANGED <<heap, built, auto_generate, entity, id, data, l0, l1, l3, token_counts,
                   generated_at, key_fields, summary_template, result, snapshot,
                   hash_order, mutations, llm>>

\* self.l3 = self.data.copy()
WriterL3 ==
    /\ threads.writer = "l3"
    /\ l3' = DictCopy(heap, data)
    /\ threads' = [threads EXCEPT !.writer = "tokens"]
    /\ UNCHANGED <<heap, built, auto_generate, entity, id, data, l0, l1, l2, token_counts,
                   generated_at, key_fields, summary_template, result, snapshot,
                   hash_order, mutations, llm>>

\* self._calculate_tokens()
WriterTokens ==
    /\ threads.writer = "tokens"
    /\ token_counts' = _calculate_tokens(heap, l0, l1, l2, l3)
    /\ threads' = [threads EXCEPT !.writer = "done"]
    /\ UNCHANGED <<heap, built, auto_generate, entity, id, data, l0, l1, l2, l3,
                   generated_at, key_fields, summary_template, result, snapshot,
                   hash_order, mutations, llm>>

\* the reader calls doc.to_json()
ReaderToJson ==
    /\ built
    /\ result = NoCall
    /\ threads.reader = "idle"
    /\ threads' = [threads EXCEPT !.reader = "to_json", !.seen = <<>>]
    /\ UNCHANGED <<heap, docvars, result, snapshot, hash_order, mutations, llm>>

\* to_json() reads self.l0, self.l1, self.l2, self.l3, self.token_counts
ReaderRead ==
    /\ threads.reader = "to_json"
    /\ Len(threads.seen) < 5
    /\ threads' = [threads EXCEPT !.seen =
            Append(@, CASE Len(@) = 0 -> PyStr(l0)
                        [] Len(@) = 1 -> PyStr(l1)
                        [] Len(@) = 2 -> l2
                        [] Len(@) = 3 -> l3
                        [] Len(@) = 4 -> token_counts)]
    /\ UNCHANGED <<heap, docvars, result, snapshot, hash_order, mutations, llm>>

\* to_json() returns the dump of what it read
ReaderDump ==
    /\ threads.reader = "to_json"
    /\ Len(threads.seen) = 5
    /\ result' = Call("to_json", PyNone, PyNone,
                      Returned(PyStr(JsonDumpsIndent(heap,
                          Envelope(threads.seen[1].s, threads.seen[2].s, threads.seen[3],
                                   threads.seen[4], threads.seen[5]), 0))))
    /\ threads' = [threads EXCEPT !.reader = "done"]
    /\ UNCHANGED <<heap, docvars, snapshot, hash_order, mutations, llm>>

\* the reader calls doc.get(token_budget=budget)
ReaderGet(budget) ==
    /\ built
    /\ result = NoCall
    /\ threads.reader = "idle"
    /\ threads' = [threads EXCEPT !.reader = "L3", !.seen = <<budget>>]
    /\ UNCHANGED <<heap, docvars, result, snapshot, hash_order, mutations, llm>>

\* one test of _get_by_budget, which returns the level when its count fits
ReaderTest ==
    /\ threads.reader \in {"L3", "L2", "L1"}
    /\ IF Fits(threads.reader, threads.seen[1].n)
       THEN /\ result' = Call("get", PyNone, threads.seen[1],
                              Returned(CASE threads.reader = "L3" -> l3
                                         [] threads.reader = "L2" -> l2
                                         [] threads.reader = "L1" -> PyStr(l1)))
            /\ threads' = [threads EXCEPT !.reader = "done"]
       ELSE /\ result' = result
            /\ threads' = [threads EXCEPT !.reader =
                    CASE @ = "L3" -> "L2" [] @ = "L2" -> "L1" [] @ = "L1" -> "L0"]
    /\ UNCHANGED <<heap, docvars, snapshot, hash_order, mutations, llm>>

\* return self.l0
ReaderFloor ==
    /\ threads.reader = "L0"
    /\ result' = Call("get", PyNone, threads.seen[1], Returned(PyStr(l0)))
    /\ threads' = [threads EXCEPT !.reader = "done"]
    /\ UNCHANGED <<heap, docvars, snapshot, hash_order, mutations, llm>>

\* the reader takes what its call returned
ReaderReturn ==
    /\ threads.reader = "done"
    /\ result' = NoCall
    /\ threads' = [threads EXCEPT !.reader = "idle", !.seen = <<>>]
    /\ UNCHANGED <<heap, docvars, snapshot, hash_order, mutations, llm>>

\* the constructing thread takes the document from from_dict
Built ==
    /\ result # NoCall
    /\ result.op = "from_dict"
    /\ Return

NextConc ==
    \/ \E rec \in Records, ent \in Entities, ident \in Ids, fields \in KeyFieldChoices,
          auto \in BOOLEAN, now \in Clock :
          FromDict(rec, ent, ident, fields, PyNone, auto, now)
    \/ Built
    \/ WriterL0
    \/ WriterL1
    \/ WriterL2
    \/ WriterL3
    \/ WriterTokens
    \/ ReaderToJson
    \/ ReaderRead
    \/ ReaderDump
    \/ \E budget \in ReaderBudgets : ReaderGet(budget)
    \/ ReaderTest
    \/ ReaderFloor
    \/ ReaderReturn

SpecConc == Init /\ [][NextConc]_vars

\* the levels and counts as (l0, l1, l2, l3, token_counts), by value
LevelsView(a0, a1, a2, a3, counts) ==
    <<a0, a1, Resolve(heap, a2), Resolve(heap, a3), counts>>

\* what the document held before the regeneration: what from_dict left
Before == <<snapshot.l0, snapshot.l1, snapshot.l2, snapshot.l3, snapshot.token_counts>>

\* what the document holds once the regeneration is over
After ==
    LET levels(summary, facts, full) ==
            LevelsView("exists", summary, facts, full,
                       _calculate_tokens(heap, "exists", summary, facts, full))
    IN levels(generate_l1(heap, data, entity, summary_template, hash_order).v,
              PyDict(generate_l2(heap, data, entity, key_fields)),
              DictCopy(heap, data))

\* what get(token_budget=b) returns on a document that holds view
Selected(view, b) ==
    LET fit(k) == DictHas(view[5].items, LevelNames[k + 1])
                  /\ DictGet(view[5].items, LevelNames[k + 1]).n <= b
    IN IF fit(3) THEN view[4]
       ELSE IF fit(2) THEN view[3]
       ELSE IF fit(1) THEN PyStr(view[2])
       ELSE PyStr(view[1])

\* C6: what a reader gets from to_json() or from get(token_budget=b) while
\* generate_levels() runs in another thread is what it would get from the
\* document as it was before the regeneration or as it is after it.
C6_ReaderSeesOneState ==
    (threads.reader = "done") =>
        IF result.op = "to_json"
        THEN LevelsView(threads.seen[1].s, threads.seen[2].s, threads.seen[3],
                        threads.seen[4], threads.seen[5]) \in {Before, After}
        ELSE Resolve(heap, result.out.v)
                \in {Selected(Before, result.budget.n), Selected(After, result.budget.n)}

---------------------------------------------------------------------------
(* LLMAssistedGenerator.generate_l1: the summary asked of an external       *)
(* text-generation service, with the schema-based summary as the fallback.  *)

\* what self.client is: None, or an object that has the attribute messages
\* (an Anthropic client), chat (an OpenAI client), both, or neither
ClientKinds == {"none", "messages", "chat", "both", "other"}

Response(kind, text) == [kind |-> kind, text |-> text]
NoResponse == Response("unasked", "")

\* what the external call does once it ends: it returns a response whose
\* first block carries a text, it raises (a transport error), or it returns
\* a response with no block, with a block that has no text attribute, or
\* with a text that is None
Responses ==
    {Response("text", "Al, a dev"), Response("text", "  A user.\n"), Response("text", ""),
     Response("raises", ""), Response("empty", ""), Response("no_text", ""),
     Response("text_none", "")}

LLMTemplates == Templates \cup {PyStr("")}

\* response.content[0].text.strip(), response.choices[0].message.content.strip()
ResponseText(response) ==
    CASE response.kind = "text" -> Returned(Strip(response.text))
      [] response.kind = "raises" -> Raised("Exception")
      [] response.kind = "empty" -> Raised("IndexError")
      [] response.kind = "no_text" -> Raised("AttributeError")
      [] response.kind = "text_none" -> Raised("AttributeError")
      [] OTHER -> Raised("Unasked")

\* the prompt sent to the service
Prompt(h, d, entity_type) ==
    "Summarize this " \o entity_type \o " in one brief line (under 20 words).\n"
    \o "Include only the most essential identifying information.\n\nData: "
    \o ToStr(h, d) \o "\n\nSummary:"

\* generate_l1 in which nothing catches what the external call raises
LLM_generate_l1_uncaught(h, d, entity_type, template, order, client, response) ==
    IF Truthy(h, template) THEN _apply_template(h, d, template.s)
    ELSE IF client = "none" THEN generate_l1(h, d, entity_type, template, order)
    ELSE IF client \in {"messages", "chat", "both"} THEN ResponseText(response)
    ELSE generate_l1(h, d, entity_type, template, order)

\* LLMAssistedGenerator(client).generate_l1(data, entity_type, template),
\* given what the external call does when the method makes it
LLM_generate_l1(h, d, entity_type, template, order, client, response) ==
    IF Truthy(h, template) THEN _apply_template(h, d, template.s)
    ELSE IF client = "none" THEN generate_l1(h, d, entity_type, template, order)
    ELSE IF client \in {"messages", "chat", "both"} /\ ResponseText(response).ok
    THEN ResponseText(response)
    ELSE generate_l1(h, d, entity_type, template, order)

\* whether the method gets to the external call
CallsOut(template, client) ==
    ~Truthy(<<>>, template) /\ client \in {"messages", "chat", "both"}

Ended(out) == IF out.ok THEN "returned" ELSE "raised"

\* generate_l1 is called; it runs up to the external call, or to its end
\* when it makes none
LLMCall(rec, ent, tpl, client) ==
    /\ llm.pc = "idle"
    /\ \E h \in {Load(PyDict(rec))} :
       \E out \in {IF CallsOut(tpl, client) THEN Raised("Unasked")
                    ELSE LLM_generate_l1(h, Ref(<<>>), ent, tpl, hash_order,
                                         client, NoResponse)} :
          llm' = [pc |-> IF CallsOut(tpl, client) THEN "awaiting" ELSE Ended(out),
                  data |-> rec,
                  entity_type |-> ent,
                  template |-> tpl,
                  client |-> client,
                  api |-> IF ~CallsOut(tpl, client) THEN "none"
                          ELSE IF client = "chat" THEN "chat.completions.create"
                          ELSE "messages.create",
                  prompt |-> IF CallsOut(tpl, client) THEN Prompt(h, Ref(<<>>), ent) ELSE "",
                  response |-> NoResponse,
                  ret |-> out]
    /\ UNCHANGED <<heap, docvars, result, snapshot, hash_order, mutations, threads>>

\* the external call ends
ExternalAnswer(response) ==
    /\ llm.pc = "awaiting"
    /\ llm' = [llm EXCEPT !.pc = "answered", !.response = response]
    /\ UNCHANGED <<heap, docvars, result, snapshot, hash_order, mutations, threads>>

\* generate_l1 runs on from the external call to its end
LLMResume ==
    /\ llm.pc = "answered"
    /\ \E h \in {Load(PyDict(llm.data))} :
       \E out \in {LLM_generate_l1(h, Ref(<<>>), llm.entity_type, llm.template,
                                     hash_order, llm.client, llm.response)} :
          llm' = [llm EXCEPT !.pc = Ended(out), !.ret = out]
    /\ UNCHANGED <<heap, docvars, result, snapshot, hash_order, mutations, threads>>

\* the caller takes the summary, or the exception
LLMReturn ==
    /\ llm.pc \in {"returned", "raised"}
    /\ llm' = NoLLM
    /\ UNCHANGED <<heap, docvars, result, snapshot, hash_order, mutations, threads>>

NextLLM ==
    \/ \E rec \in Records, ent \in Entities, tpl \in LLMTemplates, client \in ClientKinds :
          LLMCall(rec, ent, tpl, client)
    \/ \E response \in Responses : ExternalAnswer(response)
    \/ LLMResume
    \/ LLMReturn

\* the thread that runs generate_l1 keeps running; nothing makes the
\* external service answer
SpecLLM == Init /\ [][NextLLM]_vars /\ WF_vars(LLMResume) /\ WF_vars(LLMReturn)

\* the summary of SchemaBasedGenerator.generate_l1 for the call's record
SchemaSummary ==
    generate_l1(Load(PyDict(llm.data)), Ref(<<>>), llm.entity_type, llm.template, hash_order)

\* C9: without a template, LLMAssistedGenerator.generate_l1 never raises, and
\* when the client is absent, the external call raises or the response has
\* not the expected shape, it returns the schema-based summary of the same
\* record and entity type.
C9_FallsBack ==
    (llm.pc \in {"returned", "raised"} /\ ~Truthy(<<>>, llm.template)) =>
        /\ llm.pc = "returned"
        /\ llm.ret.ok
        /\ (\/ llm.client = "none"
            \/ llm.response.kind \in {"raises", "empty", "no_text", "text_none"})
           => llm.ret = SchemaSummary

\* the external call raised, and the summary of a named record came back
C9_Witness ==
    /\ llm.pc = "returned"
    /\ llm.template = PyNone
    /\ llm.client = "messages"
    /\ llm.response.kind = "raises"
    /\ llm.ret = Returned("Al, dev")

\* C10: a call of generate_l1 that has reached the external call always
\* comes to its end, whether or not the external call ever answers.
C10_AlwaysReturns ==
    (llm.pc = "awaiting") ~> (llm.pc \in {"returned", "raised"})

---------------------------------------------------------------------------
(* SchemaBasedGenerator called on its own: generate_l1, generate_l2,        *)
(* _flatten_data and _simplify_value applied to records and values.         *)

MaxGenFields == 2
MaxListLen == 4

\* fields of the small records, which are taken in every order
GenPool ==
    {Item("id", PyStr("u1")),
     Item("name", PyStr("Al")),
     Item("name", PyStr("")),
     Item("title", PyStr("Hello")),
     Item("role", PyStr("dev")),
     Item("note", PyNone),
     Item("tags", PyList(<<PyInt(1), PyInt(2)>>)),
     Item("author", PyDict(<<Item("name", PyStr("Bo")), Item("email", PyNone)>>))}

RECURSIVE GenRecordsOfLen(_)
GenRecordsOfLen(n) ==
    IF n = 0 THEN {<<>>}
    ELSE UNION {{Append(r, f) : f \in {g \in GenPool : ~DictHas(r, g.k)}}
                : r \in GenRecordsOfLen(n - 1)}

\* fields of the wide records, which are taken in this order
WidePool ==
    <<Item("id", PyInt(7)), Item("name", PyStr("Al")), Item("title", PyStr("Hello")),
      Item("status", PyStr("ok")), Item("description", PyStr("d")),
      Item("author", PyStr("Bo")), Item("owner", PyStr("Cy")), Item("rating", PyInt(5))>>

\* the elements of seq at the positions S, in their order
RECURSIVE Pick(_, _, _)
Pick(seq, S, i) ==
    IF i > Len(seq) THEN <<>>
    ELSE IF i \in S THEN <<seq[i]>> \o Pick(seq, S, i + 1)
    ELSE Pick(seq, S, i + 1)

WideRecords == {Pick(WidePool, S, 1) : S \in SUBSET (1..Len(WidePool))}

GenRecords == WideRecords \cup UNION {GenRecordsOfLen(n) : n \in 0..MaxGenFields}

GenEntities == {"user", "order", "widget"}

GenTemplates ==
    {PyNone, PyStr("{name} ({role})"), PyStr("{name} ({nick})"), PyStr("{author_name}"),
     PyStr("{}")}

GenKeyFields ==
    {<<>>,
     <<"role", "name", "email", "tags", "role">>,
     <<"author.name", "author.email", "author.zip", "name.first", "author.name.first">>}

Scalars ==
    {PyStr(""), PyStr("dev"), PyStr("long text"), PyInt(0), PyInt(7), PyFloat(25),
     PyBool(TRUE), PyNone}

ListElements == {PyStr("a"), PyInt(1), PyBool(TRUE), PyNone}

RECURSIVE ListsOfLen(_)
ListsOfLen(n) ==
    IF n = 0 THEN {<<>>}
    ELSE UNION {{Append(xs, e) : e \in ListElements} : xs \in ListsOfLen(n - 1)}

\* lists of floats, and a list with a list and a mapping among its elements
OtherLists ==
    {PyList(<<PyFloat(15)>>), PyList(<<PyFloat(15), PyInt(1), PyStr("a")>>),
     PyList(<<PyFloat(15), PyFloat(25), PyFloat(5), PyFloat(0)>>),
     PyList(<<PyInt(1), PyList(<<PyInt(2)>>)>>),
     PyList(<<PyDict(<<Item("x", PyInt(1))>>)>>)}

Lists == OtherLists \cup {PyList(xs) : xs \in UNION {ListsOfLen(n) : n \in 0..MaxListLen}}

Mappings ==
    {PyDict(<<Item("name", PyStr("Bo")), Item("id", PyInt(5))>>),
     PyDict(<<Item("x", PyInt(1)), Item("city", PyStr("Rome"))>>),
     PyDict(<<Item("x", PyInt(1))>>)}

SimplifyInputs == Scalars \cup Lists \cup Mappings

\* generator.generate_l1(rec, ent, tpl)
GenerateL1(rec, ent, tpl) ==
    /\ ~built
    /\ result = NoCall
    /\ \E h \in {Load(PyDict(rec))} :
          result' = [op |-> "generate_l1", data |-> rec, entity_type |-> ent,
                     template |-> tpl,
                     out |-> generate_l1(h, Ref(<<>>), ent, tpl, hash_order)]
    /\ UNCHANGED <<heap, docvars, snapshot, othervars>>

\* generator.generate_l2(rec, ent, fields); the key facts are kept by value
GenerateL2(rec, ent, fields) ==
    /\ ~built
    /\ result = NoCall
    /\ \E h \in {Load(PyDict(rec))} :
          result' = [op |-> "generate_l2", data |-> rec, entity_type |-> ent,
                     fields |-> fields,
                     out |-> Returned(Resolve(h, PyDict(generate_l2(h, Ref(<<>>), ent, fields))))]
    /\ UNCHANGED <<heap, docvars, snapshot, othervars>>

\* generator._flatten_data(rec)
FlattenData(rec) ==
    /\ ~built
    /\ result = NoCall
    /\ \E h \in {Load(PyDict(rec))} :
          result' = [op |-> "_flatten_data", data |-> rec,
                     out |-> Returned(Resolve(h, PyDict(_flatten_data(h, Ref(<<>>), ""))))]
    /\ UNCHANGED <<heap, docvars, snapshot, othervars>>

\* generator._simplify_value(value), and the same applied to what it returned
SimplifyValue(value) ==
    /\ ~built
    /\ result = NoCall
    /\ \E once \in {_simplify_value(<<>>, value)} :
          result' = [op |-> "_simplify_value", value |-> value, out |-> once,
                     again |-> _simplify_value(<<>>, once)]
    /\ UNCHANGED <<heap, docvars, snapshot, othervars>>

NextGen ==
    \/ \E rec \in GenRecords, ent \in GenEntities, tpl \in GenTemplates :
          GenerateL1(rec, ent, tpl)
    \/ \E rec \in GenRecords, ent \in GenEntities, fields \in GenKeyFields :
          GenerateL2(rec, ent, fields)
    \/ \E rec \in GenRecords : FlattenData(rec)
    \/ \E value \in SimplifyInputs : SimplifyValue(value)
    \/ Return

SpecGen == Init /\ [][NextGen]_vars

---------------------------------------------------------------------------
(* Properties of the generators *)

\* whether part occurs in text
Within(part, text) ==
    \E i \in 1..(Len(text) - Len(part) + 1) : SubSeq(text, i, i + Len(part) - 1) = part

\* a summary asked without a template
AutoSummary == result.op = "generate_l1" /\ ~Truthy(<<>>, result.template)

\* the record has an id next to a name or a title
IdBesideName ==
    /\ DictHas(result.data, "id")
    /\ DictHas(result.data, "name") \/ DictHas(result.data, "title")

\* the string forms of the truthy priority fields of the call's record,
\* the id left out
PartsButId ==
    LET h == Load(PyDict(result.data))
        parts(flat) ==
            LET fields == IF result.entity_type \in DOMAIN ENTITY_KEY_FIELDS
                          THEN Take(ENTITY_KEY_FIELDS[result.entity_type], 4)
                          ELSE Take(SelectSeq(hash_order, LAMBDA f : DictHas(flat, f)), 4)
                taken == SelectSeq(fields, LAMBDA f : /\ f # "id"
                                                      /\ DictHas(flat, f)
                                                      /\ Truthy(h, DictGet(flat, f)))
            IN [i \in 1..Len(taken) |-> ToStr(h, DictGet(flat, taken[i]))]
    IN parts(_flatten_data(h, Ref(<<>>), ""))

Rendered(h, template, flat) ==
    LET n == Len(template)
        RECURSIVE Scan(_)
        Scan(i) ==
            IF i > n THEN ""
            ELSE IF CharAt(template, i) = "{" /\ \E j \in (i + 1)..n : CharAt(template, j) = "}"
            THEN LET j == CHOOSE m \in (i + 1)..n :
                            /\ CharAt(template, m) = "}"
                            /\ \A q \in (i + 1)..(m - 1) : CharAt(template, q) # "}"
                     name == SubSeq(template, i + 1, j - 1)
                 IN (IF DictHas(flat, name) THEN ToStr(h, DictGet(flat, name)) ELSE "")
                    \o Scan(j + 1)
            ELSE CharAt(template, i) \o Scan(i + 1)
    IN Scan(1)

\* C12: generate_l1 with a template never raises and returns the template
\* with every {field} replaced by the string form of the field's value in
\* the flattened record, a placeholder of an absent field by empty text.
C12_TemplateRendered ==
    (result.op = "generate_l1" /\ Truthy(<<>>, result.template)) =>
        LET h == Load(PyDict(result.data))
        IN result.out = Returned(Rendered(h, result.template.s,
                                          _flatten_data(h, Ref(<<>>), "")))

\* seq without the later occurrences of its elements
RECURSIVE FirstOccurrences(_)
FirstOccurrences(seq) ==
    IF Len(seq) = 0 THEN <<>>
    ELSE LET front == FirstOccurrences(SubSeq(seq, 1, Len(seq) - 1))
             last == seq[Len(seq)]
         IN IF \E i \in 1..Len(front) : front[i] = last THEN front ELSE Append(front, last)

\* key facts asked with explicit field names
ExplicitFacts == result.op = "generate_l2" /\ Len(result.fields) > 0

Dotted(field) == Contains(field, ".")

\* C13: generate_l2 with a non-empty list of field names without dots
\* returns a mapping whose keys are exactly the requested names that are
\* top-level fields of the record, in the order of the requested list,
\* whatever the entity type.
C13_ExactKeys ==
    (ExplicitFacts /\ \A i \in 1..Len(result.fields) : ~Dotted(result.fields[i])) =>
        /\ result.out.ok
        /\ DictKeys(result.out.v.items) =
              FirstOccurrences(SelectSeq(result.fields,
                                         LAMBDA f : DictHas(result.data, f)))

\* role and name asked in that order of a user record that has name first
C13_Witness ==
    /\ ExplicitFacts
    /\ result.entity_type = "user"
    /\ DictKeys(result.data) = <<"name", "role">>
    /\ DictKeys(result.out.v.items) = <<"role", "name">>

IsScalar(x) == x.t \in {"str", "int", "float", "bool", "none"}

\* a list of at most 3 elements, all of them scalars
IsShortList(x) ==
    /\ x.t = "list"
    /\ Len(x.xs) <= 3
    /\ \A i \in 1..Len(x.xs) : IsScalar(x.xs[i])

\* C14: for a scalar x and for a list x of at most 3 scalars,
\* _simplify_value(_simplify_value(x)) equals _simplify_value(x).
C14_SimplifyIdempotent ==
    (result.op = "_simplify_value" /\ (IsScalar(result.value) \/ IsShortList(result.value)))
        => result.again = result.out

\* a short list with a None in it: its rendering is simplified to itself
C14_Witness ==
    /\ result.op = "_simplify_value"
    /\ result.value = PyList(<<PyInt(1), PyNone>>)
    /\ result.out = PyStr("[2 items]")
    /\ result.again = result.out

\* C15: the empty sequence and a sequence of at most 3 elements, each a
\* string, an integer or a float, are returned unchanged; every longer
\* sequence and every sequence with an element of another kind is rendered
\* as the text "[<n> items]", n being its length.
C15_SequenceRendering ==
    (result.op = "_simplify_value" /\ result.value.t = "list") =>
        result.out =
            IF \/ Len(result.value.xs) = 0
               \/ /\ Len(result.value.xs) <= 3
                  /\ \A i \in 1..Len(result.value.xs) :
                        result.value.xs[i].t \in {"str", "int", "float"}
            THEN result.value
            ELSE PyStr("[" \o IntToStr(Len(result.value.xs)) \o " items]")

\* the call's record gives the summary no part: no priority field has a
\* truthy value, but for an id beside a name or a title, and no value of the
\* flattened record is a non-empty string
NothingCollected ==
    LET h == Load(PyDict(result.data))
        none(flat) ==
            LET fields == IF result.entity_type \in DOMAIN ENTITY_KEY_FIELDS
                          THEN Take(ENTITY_KEY_FIELDS[result.entity_type], 4)
                          ELSE Take(SelectSeq(hash_order, LAMBDA f : DictHas(flat, f)), 4)
            IN /\ \A i \in 1..Len(fields) :
                     (DictHas(flat, fields[i]) /\ Truthy(h, DictGet(flat, fields[i])))
                        => /\ fields[i] = "id"
                           /\ DictHas(flat, "name") \/ DictHas(flat, "title")
               /\ \A i \in 1..Len(flat) :
                     ~(Deref(h, flat[i].v).t = "str" /\ Deref(h, flat[i].v).s # "")
    IN none(_flatten_data(h, Ref(<<>>), ""))

\* C16: for any entity type and any record that gives the summary no part,
\* the empty record among them, generate_l1 without a template returns
\* "<entity_type> entity" and does not raise; for the empty record
\* generate_l2 returns the empty mapping.
C16_EntityFallback ==
    /\ (AutoSummary /\ NothingCollected) =>
            result.out = Returned(result.entity_type \o " entity")
    /\ (result.op = "generate_l2" /\ result.data = <<>>) =>
            result.out = Returned(PyDict(<<>>))

\* the empty record of an entity type that has no field list
C16_Witness ==
    /\ AutoSummary
    /\ result.data = <<>>
    /\ result.entity_type = "widget"
    /\ result.out = Returned("widget entity")

\* key facts asked without field names, of an entity type with no field list
GenericFacts ==
    /\ result.op = "generate_l2"
    /\ Len(result.fields) = 0
    /\ result.entity_type \notin DOMAIN ENTITY_KEY_FIELDS

\* the names of the record's top-level fields that are in the set S
FieldsIn(S) == SelectSeq(DictKeys(result.data), LAMBDA k : k \in S)

\* C17: for an entity type with no field list and no explicit fields, the
\* key facts hold every top-level field of the high-priority set; fields
\* of the medium-priority set follow only when the high-priority fields are
\* fewer than 4, and no more of them than bring the key facts to 6 entries.
C17_GenericKeyFacts ==
    GenericFacts =>
        DictKeys(result.out.v.items) =
            IF Len(FieldsIn(HIGH_PRIORITY_FIELDS)) < 4
            THEN FieldsIn(HIGH_PRIORITY_FIELDS)
                    \o Take(FieldsIn(MEDIUM_PRIORITY_FIELDS),
                            6 - Len(FieldsIn(HIGH_PRIORITY_FIELDS)))
            ELSE FieldsIn(HIGH_PRIORITY_FIELDS)

\* three high-priority fields and four medium-priority ones: the fourth
\* medium-priority field is left out
C17_Witness ==
    /\ GenericFacts
    /\ Len(FieldsIn(HIGH_PRIORITY_FIELDS)) = 3
    /\ Len(FieldsIn(MEDIUM_PRIORITY_FIELDS)) = 4
    /\ Len(result.out.v.items) = 6
    /\ ~DictHas(result.out.v.items, "rating")

\* whether every segment of the dotted path is found by descending the
\* mappings of the record rec
Resolves(rec, path) ==
    LET parts == SplitDots(path)
        RECURSIVE Walk(_, _)
        Walk(i, x) ==
            IF i > Len(parts) THEN TRUE
            ELSE /\ x.t = "dict"
                 /\ DictHas(x.items, parts[i])
                 /\ Walk(i + 1, DictGet(x.items, parts[i]))
    IN Walk(1, PyDict(rec))

\* C18: for an explicit key field written as a dotted path, the key facts
\* have an entry exactly when every segment of the path resolves through the
\* record's nested mappings, and none when a segment is missing or a value
\* on the way is not a mapping.
C18_DottedPath ==
    ExplicitFacts =>
        \A i \in 1..Len(result.fields) :
            Dotted(result.fields[i]) =>
                (DictHas(result.out.v.items, StrReplace(result.fields[i], ".", "_"))
                    <=> Resolves(result.data, result.fields[i]))

\* C19: when a top-level field and a field of a nested mapping have the
\* same name, the bare key of the flattened record keeps the top-level
\* field's value, whatever the order of the fields: every top-level field
\* that is not a mapping is in the flattened record with its own value.
C19_TopLevelKept ==
    (result.op = "_flatten_data") =>
        \A i \in 1..Len(result.data) :
            result.data[i].v.t # "dict" =>
                /\ DictHas(result.out.v.items, result.data[i].k)
                /\ DictGet(result.out.v.items, result.data[i].k) = result.data[i].v

---------------------------------------------------------------------------
(* get called with a level and a budget *)

\* a get that was given both a level of 0..3 and a budget
BothGiven ==
    /\ result.op = "get"
    /\ result.level # PyNone
    /\ result.budget # PyNone
    /\ Tenths(result.level) \in {0, 10, 20, 30}

\* C20: when get is called with both a level and a budget, the level alone
\* selects the result: the stored rendering of that level is returned, also
\* when its count exceeds the budget.
C20_LevelWins ==
    BothGiven => result.out = Returned(Stored(Tenths(result.level) \div 10))

\* the full record, asked with a budget that its count exceeds
C20_Witness ==
    /\ BothGiven
    /\ auto_generate
    /\ result.level = L3_FULL
    /\ CountOf(3) > result.budget.n
    /\ result.out = Returned(l3)
    /\ l3 # l2

---------------------------------------------------------------------------
(* A document built without generation *)

\* a document that from_dict built with auto_generate=False and whose
\* counts no generate_levels call has computed
Ungenerated == built /\ ~auto_generate /\ token_counts = PyDict(<<>>)

\* a generate_levels call that returned
Generated == result.op = "generate_levels" /\ result.out.ok

\* C21: a document built by from_dict with auto_generate=False has empty
\* token counts until a generate_levels call returns; as long as it has,
\* get(token_budget=b) returns l0 for every b and get(level=L3) returns the
\* full record; a generate_levels call that returns computes the counts,
\* and from then on get(token_budget=b) returns the highest level whose
\* count is at most b.
C21_UngeneratedLookup ==
    [][/\ (result'.op = "from_dict" /\ result'.out = Returned(PyBool(FALSE)))
             => Ungenerated'
       /\ (Ungenerated /\ ~Generated') => Ungenerated'
       /\ (Ungenerated' /\ ByBudget') => result'.out = Returned(PyStr(l0'))
       /\ (Ungenerated' /\ result'.op = "get" /\ result'.level = L3_FULL)
             => /\ result'.out = Returned(l3')
                /\ Resolve(heap', l3') = Resolve(heap', data')
       /\ (built /\ ~auto_generate /\ Generated')
             => /\ token_counts' = _calculate_tokens(heap', l0', l1', l2', l3')
                /\ ~Ungenerated'
       /\ (built' /\ ~auto_generate' /\ ~Ungenerated' /\ ByBudget')
             => result'.out =
                   Returned(IF (FittingLevels(result.budget.n))' = {}
                            THEN PyStr(l0')
                            ELSE (Stored(Highest(FittingLevels(result.budget.n))))')
      ]_vars

\* a budget that the full record's estimate is within, and l0 comes back
C21_Witness ==
    /\ Ungenerated
    /\ ByBudget
    /\ Len(l3.items) > 0
    /\ _count_tokens(JsonDumps(heap, l3)) <= result.budget.n
    /\ result.out = Returned(PyStr("exists"))

=============================================================================
